---- MODULE Spec2Model ----
(***************************************************************************)
(* Model of catalyst/rl/offpolicy/discrete_sampler.py: the Sampler actor.  *)
(* One Sampler object per element of DOMAIN cfg; the redis server (weights *)
(* key and "trajectories" list) is shared by all of them.                  *)
(*                                                                         *)
(* Numbers.  eps, eps_final and eps_delta are exact rationals: each is     *)
(* held as a numerator over the denominator                                *)
(* EpsUnit * exploration_annealing_steps, so the division of line 83 is    *)
(* exact.  The 32-bit constants 2**32 - 2 are scaled to 2^WordBits - 2.    *)
(* None is written <<>> for seeds and 0 for episode_limit (both are falsy  *)
(* in the `or` of line 71 / tested with `is None` in lines 166, 245).      *)
(***************************************************************************)
EXTENDS Integers, Sequences, FiniteSets, TLC

\* ------------------------------------------------------------ bounds
WordBits == 6
MaxEpLen == 3
MaxEpisodes == 3
EpsUnit == 4

\* ------------------------------------------------------------ constants
SEED_RANGE == 2^WordBits - 2
DefaultEpisodeLimit == 2^WordBits - 2
BaseSeed == 42
num_actions == 2
history_len == 2

VARIABLES cfg, actor, rng, env, redis, hist

vars == <<cfg, actor, rng, env, redis, hist>>

Actors == DOMAIN cfg

Max(x, y) == IF x >= y THEN x ELSE y
Min(x, y) == IF x <= y THEN x ELSE y

\* ------------------------------------------------------------ weights
\* The critic passed to the constructor, the checkpoint file's content and
\* the values a learner may write under "<prefix>_critic_weights".
InitialCritic == "w0"
Checkpoint == "wc"
LearnerWeights == {"w1", "w2"}
StoreValues == {"absent", "malformed"} \cup LearnerWeights

\* deserialize(redis_server.get(key)) yields a weights mapping only for a
\* key that is present and well-formed; it raises otherwise
Deserializable(blob) == blob \in LearnerWeights

\* ------------------------------------------------------------ configuration
\* Sampler.__init__ arguments.  resume / redis_server: TRUE when not None.
Config(ids, backends, modes, forces, syncs, limits, sizes, epss, pools) ==
    [ id : ids, backend : backends, mode : modes, force_store : forces,
      weights_sync_period : syncs, episode_limit : limits,
      buffer_size : sizes, exploration : epss, seeds : pools ]

Backends ==
    [ resume : BOOLEAN, redis_server : BOOLEAN ]

\* exploration_eps_init, exploration_eps_final in units of 1/EpsUnit
Explorations ==
    { [eps_init |-> 4, eps_final |-> 1, annealing_steps |-> 2],
      [eps_init |-> 2, eps_final |-> 0, annealing_steps |-> 3],
      [eps_init |-> 4, eps_final |-> 2, annealing_steps |-> 5] }

\* self._seed = 42 + id
ActorSeed(c) == BaseSeed + c.id

\* self.episode_limit = episode_limit or int(2**32 - 2)
EpisodeLimitNone(c) == c.episode_limit
EpisodeLimit(c) ==
    IF c.episode_limit = 0 THEN DefaultEpisodeLimit ELSE c.episode_limit

\* self.infer = mode == "infer"
Infer(c) == c.mode = "infer"

\* self.eps, self.eps_final, self.eps_delta as numerators over
\* EpsUnit * annealing_steps
EpsInit(c) == c.exploration.eps_init * c.exploration.annealing_steps
EpsFinal(c) == c.exploration.eps_final * c.exploration.annealing_steps
EpsDelta(c) == (EpsInit(c) - EpsFinal(c)) \div c.exploration.annealing_steps

\* ------------------------------------------------------------ random sources
\* A generator is the seed last applied and the number of draws since: its
\* outputs are a fixed function of the two.
Seeded(s) == [seed |-> s, n |-> 0]

Gen(g) == (g.seed * 5 + g.n * 3 + 1) % (2^WordBits)

Advance(g) == [g EXCEPT !.n = @ + 1]

\* set_global_seeds(i): seeds random and np.random alike
SetGlobalSeeds(i) == [py |-> Seeded(i), np |-> Seeded(i)]

\* random.randrange(n), random.choice(seq): one draw from `random`
Randrange(g, n) == Gen(g) % n
Choice(g, seq) == seq[(Gen(g) % Len(seq)) + 1]

\* np.random.rand() in units of 1/EpsUnit, np.random.randint(n)
Rand(g) == Gen(g) % EpsUnit
Randint(g, n) == Gen(g) % n

\* act() consumed k draws: it draws from np.random, never from random
ActDrawsPy(r, k) == [r EXCEPT !.py.n = @ + k]
ActDraws(r, k) == [r EXCEPT !.np.n = @ + k]

\* ------------------------------------------------------------ SamplerBuffer
NewBuffer(capacity) ==
    [ capacity |-> capacity, observations |-> <<>>, actions |-> <<>>,
      rewards |-> <<>>, dones |-> <<>> ]

InitWithObservation(b, obs) == [b EXCEPT !.observations = <<obs>>]

BufferFull(b) == Len(b.actions) >= b.capacity

PushTransition(b, next_obs, action, reward, d) ==
    [ b EXCEPT !.observations = Append(@, next_obs),
               !.actions = Append(@, action),
               !.rewards = Append(@, reward),
               !.dones = Append(@, d) ]

\* the last h observations, left-padded with the earliest one
GetState(b, h) ==
    LET n == Len(b.observations)
    IN  [ i \in 1..h |-> b.observations[Max(1, n - h + i)] ]

EpisodeComplete(b) == Len(b.dones) > 0 /\ b.dones[Len(b.dones)]

GetCompleteEpisode(b) ==
    LET L == Len(b.actions)
    IN  << SubSeq(b.observations, 1, L), b.actions, b.rewards, b.dones >>

\* ------------------------------------------------------------ estimator
WeightIndex(w) ==
    CASE w = "w0" -> 0 [] w = "wc" -> 1 [] w = "w1" -> 0 [] w = "w2" -> 1

\* argmax of the critic's q-values for the stacked state
Greedy(w, state) == (WeightIndex(w) + state[Len(state)][2]) % num_actions

\* ------------------------------------------------------------ code of run()
\* self.critic.load_state_dict(weights): the fetched state dict replaces the
\* installed one as a whole (a weights value stands for a whole state dict)
InstallKeepOld(old, fetched) == old
Install(old, fetched) == fetched

\* self.redis_server.rpush("trajectories", episode)
Lpush(list, entry) == <<entry>> \o list
Rpush(list, entry) == Append(list, entry)

\* seed = self._seed + random.randrange(SEED_RANGE)
DecorrelationSeedNoBase(c, g) == Randrange(g, SEED_RANGE)
DecorrelationSeed(c, g) == ActorSeed(c) + Randrange(g, SEED_RANGE)

\* seed = random.randrange(SEED_RANGE) if self.seeds is None
\*        else random.choice(self.seeds)
EpisodeSeedUnpooled(c, g) == Randrange(g, SEED_RANGE)
EpisodeSeed(c, g) ==
    IF c.seeds = <<>> THEN Randrange(g, SEED_RANGE) ELSE Choice(g, c.seeds)

\* if np.random.rand() < self.eps
ExploreOrEqual(c, eps, g) == Rand(g) * c.exploration.annealing_steps <= eps
ExploreDecayed(c, eps, g) ==
    Rand(g) * c.exploration.annealing_steps
        < Max(eps - EpsDelta(c), EpsFinal(c))
Explore(c, eps, g) == Rand(g) * c.exploration.annealing_steps < eps
\* which source load_critic_weights reads
BackendRedisFirst(c) ==
    IF c.backend.redis_server THEN "redis"
    ELSE IF c.backend.resume THEN "checkpoint"
    ELSE "none"
Backend(c) ==
    IF c.backend.resume THEN "checkpoint"
    ELSE IF c.backend.redis_server THEN "redis"
    ELSE "none"

\* SamplerBuffer(capacity=self.buffer_size, ...)
BufferCapacityPlusOne(c) == c.buffer_size + 1
BufferCapacity(c) == c.buffer_size

\* self.buffer = SamplerBuffer(...): a new buffer for every episode
ReusedBuffer(c, old) == old
FreshBuffer(c, old) == NewBuffer(BufferCapacity(c))

\* self.eps = max(self.eps - self.eps_delta, self.eps_final)
DecayNoFloor(eps, delta, final) == eps - delta
DecayTwice(eps, delta, final) == Max(eps - 2 * delta, final)
Decay(eps, delta, final) == Max(eps - delta, final)

\* while not done
LoopExitAlways(d) == TRUE
LoopExit(d) == d

\* if not self.infer or self.force_store
ShouldStoreNoForce(c) == ~Infer(c)
ShouldStoreBoth(c) == ~Infer(c) /\ c.force_store
ShouldStore(c) == ~Infer(c) \/ c.force_store

\* if self.episode_index >= self.episode_limit: return
LimitReachedStrict(index, limit) == index > limit
LimitReached(index, limit) == index >= limit

\* if self.episode_index % self.weights_sync_period == 0
SyncDuePrev(index, period) == (index - 1) % period = 0
SyncDue(index, period) == index % period = 0

\* lines 230-234: the limit test comes first, then the sync test
AfterIncrementSyncFirst(c, index) ==
    IF SyncDue(index, c.weights_sync_period) THEN "load"
    ELSE IF LimitReached(index, EpisodeLimit(c)) THEN "returned"
    ELSE "reset"
AfterIncrement(c, index) ==
    IF LimitReached(index, EpisodeLimit(c)) THEN "returned"
    ELSE IF SyncDue(index, c.weights_sync_period) THEN "load"
    ELSE "reset"

\* ------------------------------------------------------------ initial state
NewActor(c) ==
    [ pc |-> "constructed", error |-> "none", episode_index |-> 0,
      critic |-> InitialCritic, eps |-> EpsInit(c),
      buffer |-> NewBuffer(BufferCapacity(c)), seed |-> ActorSeed(c),
      step_index |-> 0, episode_reward |-> 0, episode_reward_orig |-> 0,
      done |-> FALSE ]

\* history of a run: successful weight loads, environment resets and steps,
\* episodes that left the inner loop and passed line 192, store_episode()
\* calls, episode seeds applied before each env.reset(), every seed given to
\* set_global_seeds in order, what the weight source held at the last load
NewHist(c) ==
    [ loads |-> 0, resets |-> 0, steps |-> 0, completed |-> 0, stored |-> 0,
      seeds |-> <<>>, applied |-> <<ActorSeed(c)>>, loaded |-> "none" ]

\* the environment: resets so far, steps since the last reset, the length at
\* which an episode is done at the latest, and the number of episodes it
\* serves in the behaviours explored
NewEnv(horizon, budget) ==
    [ resets |-> 0, t |-> 0, horizon |-> horizon, budget |-> budget ]

InitOver(cfgs, horizon, budget) ==
    /\ cfg \in cfgs
    /\ actor = [a \in DOMAIN cfg |-> NewActor(cfg[a])]
    /\ rng = [a \in DOMAIN cfg |-> SetGlobalSeeds(ActorSeed(cfg[a]))]
    /\ env = [a \in DOMAIN cfg |-> NewEnv(horizon, budget)]
    /\ redis \in [weights : StoreValues, trajectories : {<<>>}]
    /\ hist = [a \in DOMAIN cfg |-> NewHist(cfg[a])]

SingleConfigs ==
    Config({0, 1}, Backends, {"train", "infer"}, BOOLEAN, {1, 2},
           {0, 1, 2, 3}, {2, 3}, Explorations, {<<>>, <<3, 7>>})

Init == InitOver([{1} -> SingleConfigs], MaxEpLen, MaxEpisodes)

\* ------------------------------------------------------------ actions
\* an exception leaves run(): nothing in run() catches it
RaiseSwallowed(a, kind) ==
    [actor EXCEPT ![a].error = kind]
Raise(a, kind) ==
    [actor EXCEPT ![a].pc = "failed", ![a].error = kind]

\* entries of the "trajectories" list pushed by actor a
QueueCount(a) ==
    Cardinality({i \in 1..Len(redis.trajectories) :
                    redis.trajectories[i].by = a})

\* run(), line 154
RunStart(a) ==
    /\ actor[a].pc = "constructed"
    /\ actor' = [actor EXCEPT ![a].pc = "load", ![a].episode_index = 1]
    /\ UNCHANGED <<cfg, rng, env, redis, hist>>

\* load_critic_weights(), called from lines 155 and 234
LoadWeights(a) ==
    /\ actor[a].pc = "load"
    /\ LET src == Backend(cfg[a])
           ok == \/ src = "checkpoint"
                 \/ src = "redis" /\ Deserializable(redis.weights)
           w == IF src = "checkpoint" THEN Checkpoint ELSE redis.weights
       IN  IF ok
           THEN /\ actor' = [actor EXCEPT ![a].pc = "reset",
                                          ![a].critic = Install(@, w)]
                /\ hist' = [hist EXCEPT ![a].loads = @ + 1,
                                        ![a].loaded = w]
           ELSE /\ actor' = Raise(a, IF src = "none" THEN "NotImplementedError"
                                     ELSE "WeightsUnavailable")
                /\ hist' = hist
    /\ UNCHANGED <<cfg, rng, env, redis>>

\* new buffer, two-phase seeding, env.reset(): lines 156-175 and 236-256
ResetEpisode(a) ==
    /\ actor[a].pc = "reset"
    /\ LET seed1 == DecorrelationSeed(cfg[a], rng[a].py)
           g1 == SetGlobalSeeds(seed1)
           seed2 == EpisodeSeed(cfg[a], g1.py)
           obs == <<env[a].resets + 1, 0>>
       IN  /\ rng' = [rng EXCEPT ![a] = SetGlobalSeeds(seed2)]
           /\ env' = [env EXCEPT ![a].resets = @ + 1, ![a].t = 0]
           /\ actor' = [actor EXCEPT
                  ![a].pc = "step",
                  ![a].buffer =
                      InitWithObservation(FreshBuffer(cfg[a], @), obs),
                  ![a].seed = seed2,
                  ![a].step_index = 0,
                  ![a].episode_reward = 0,
                  ![a].episode_reward_orig = 0,
                  ![a].done = FALSE]
           /\ hist' = [hist EXCEPT ![a].resets = @ + 1,
                                   ![a].seeds = Append(@, seed2),
                                   ![a].applied = @ \o <<seed1, seed2>>]
    /\ UNCHANGED <<cfg, redis>>

\* one pass of the inner loop, lines 178-188
Step(a) ==
    /\ actor[a].pc = "step"
    /\ LET me == actor[a]
           state == GetState(me.buffer, history_len)
           explore == Explore(cfg[a], me.eps, rng[a].np)
           action == IF explore
                     THEN Randint(Advance(rng[a].np), num_actions)
                     ELSE Greedy(me.critic, state)
           draws == IF explore THEN 2 ELSE 1
           eps2 == Decay(me.eps, EpsDelta(cfg[a]), EpsFinal(cfg[a]))
           t2 == env[a].t + 1
           next_obs == <<env[a].resets, t2>>
           reward == 1
       IN  \E d \in BOOLEAN :
             /\ t2 >= env[a].horizon => d
             /\ rng' = [rng EXCEPT ![a] = ActDraws(@, draws)]
             /\ env' = [env EXCEPT ![a].t = t2]
             /\ hist' = [hist EXCEPT ![a].steps = @ + 1]
             /\ IF BufferFull(me.buffer)
                THEN actor' = [Raise(a, "BufferOverflow") EXCEPT
                         ![a].eps = eps2,
                         ![a].done = d,
                         ![a].episode_reward = @ + reward]
                ELSE actor' = [actor EXCEPT
                         ![a].pc = IF LoopExit(d) THEN "store" ELSE "step",
                         ![a].eps = eps2,
                         ![a].done = d,
                         ![a].episode_reward = @ + reward,
                         ![a].buffer =
                             PushTransition(@, next_obs, action, reward, d),
                         ![a].step_index = @ + 1]
    /\ UNCHANGED <<cfg, redis>>

\* lines 190-192 with store_episode(), lines 130-142
StoreEpisode(a) ==
    /\ actor[a].pc = "store"
    /\ IF ~ShouldStore(cfg[a])
       THEN /\ actor' = [actor EXCEPT ![a].pc = "advance"]
            /\ hist' = [hist EXCEPT ![a].completed = @ + 1]
            /\ redis' = redis
       ELSE IF ~cfg[a].backend.redis_server
       THEN /\ actor' = [actor EXCEPT ![a].pc = "advance"]
            /\ hist' = [hist EXCEPT ![a].completed = @ + 1,
                                    ![a].stored = @ + 1]
            /\ redis' = redis
       ELSE IF ~EpisodeComplete(actor[a].buffer)
       THEN /\ actor' = Raise(a, "IncompleteEpisode")
            /\ hist' = [hist EXCEPT ![a].stored = @ + 1]
            /\ redis' = redis
       ELSE /\ actor' = [actor EXCEPT ![a].pc = "advance"]
            /\ hist' = [hist EXCEPT ![a].completed = @ + 1,
                                    ![a].stored = @ + 1]
            /\ redis' = [redis EXCEPT !.trajectories =
                   Rpush(@, [by |-> a,
                             episode |-> GetCompleteEpisode(actor[a].buffer)])]
    /\ UNCHANGED <<cfg, rng, env>>

\* lines 228-234
AdvanceEpisode(a) ==
    /\ actor[a].pc = "advance"
    /\ actor[a].episode_index < env[a].budget
    /\ LET index == actor[a].episode_index + 1
       IN  actor' = [actor EXCEPT
               ![a].episode_index = index,
               ![a].pc = AfterIncrement(cfg[a], index)]
    /\ UNCHANGED <<cfg, rng, env, redis, hist>>

\* the learner (or anything else) rewrites or removes the weights key
StoreWrite ==
    /\ \E a \in Actors : actor[a].pc \notin {"returned", "failed"}
    /\ \E v \in StoreValues \ {redis.weights} :
           redis' = [redis EXCEPT !.weights = v]
    /\ UNCHANGED <<cfg, actor, rng, env, hist>>

Next ==
    \/ \E a \in Actors : RunStart(a)
    \/ \E a \in Actors : LoadWeights(a)
    \/ \E a \in Actors : ResetEpisode(a)
    \/ \E a \in Actors : Step(a)
    \/ \E a \in Actors : StoreEpisode(a)
    \/ \E a \in Actors : AdvanceEpisode(a)
    \/ StoreWrite

Spec == Init /\ [][Next]_vars

\* Two independent runs of one configuration (same id, seed pool, sync
\* period and limit) against a weights key the learner keeps rewriting.
PairConfigs ==
    Config({0, 1}, {[resume |-> FALSE, redis_server |-> TRUE]}, {"infer"},
           {FALSE}, {1, 2}, {3}, {3},
           {[eps_init |-> 2, eps_final |-> 0, annealing_steps |-> 3]},
           {<<3, 7>>, <<5, 9, 11>>})

InitPair ==
    InitOver({f \in [{1, 2} -> PairConfigs] : f[1] = f[2]},
             MaxEpLen, MaxEpisodes)

SpecPair == InitPair /\ [][Next]_vars

\* Two actors with different ids pushing to the one "trajectories" list.
QueueConfigs ==
    Config({0, 1}, {[resume |-> FALSE, redis_server |-> TRUE],
                    [resume |-> TRUE, redis_server |-> TRUE]},
           {"train"}, {FALSE}, {2}, {2, 3}, {3},
           {[eps_init |-> 4, eps_final |-> 1, annealing_steps |-> 2]},
           {<<3, 7>>})

InitQueue ==
    InitOver({f \in [{1, 2} -> QueueConfigs] : f[1].id = 0 /\ f[2].id = 1},
             MaxEpLen, MaxEpisodes)

SpecQueue == InitQueue /\ [][Next]_vars

\* One actor in an environment whose every episode reaches done at its first
\* step, run for as many episodes as the default limit allows.  The actor is a
\* running thread: while run() has a next statement it is executed.  The
\* runs without a limit are in infer mode, so that the queue stays empty.
LongConfigs ==
    { c \in Config({0}, {[resume |-> FALSE, redis_server |-> TRUE],
                         [resume |-> TRUE, redis_server |-> TRUE]},
                   {"train", "infer"}, {FALSE}, {2}, {0, 1, 3}, {2},
                   {[eps_init |-> 4, eps_final |-> 1, annealing_steps |-> 2]},
                   {<<3, 7>>}) :
        c.episode_limit = 0 => c.mode = "infer" }

InitLong == InitOver([{1} -> LongConfigs], 1, DefaultEpisodeLimit)

ActorStep ==
    \E a \in Actors :
        \/ RunStart(a)
        \/ LoadWeights(a)
        \/ ResetEpisode(a)
        \/ Step(a)
        \/ StoreEpisode(a)
        \/ AdvanceEpisode(a)

SpecLong == InitLong /\ [][Next]_vars /\ WF_vars(ActorStep)

\* ------------------------------------------------------------ claims
Train(c) == c.mode = "train"

\* C1: with episode_limit = N >= 1, train mode and a trajectory queue, a run
\* that has returned has emitted exactly N episodes.
C1_EmitsLimitEpisodes ==
    \A a \in Actors :
        ( /\ actor[a].pc = "returned"
          /\ Train(cfg[a])
          /\ cfg[a].backend.redis_server
          /\ cfg[a].episode_limit >= 1 )
        => QueueCount(a) = cfg[a].episode_limit

\* episode boundaries 2..upto whose incremented index is a multiple of the
\* sync period
SyncBoundaries(c, upto) ==
    Cardinality({k \in 2..upto : k % c.weights_sync_period = 0})

\* C2: one load before the first episode, and afterwards one load at each
\* boundary of a non-final episode whose incremented index is a multiple of
\* weights_sync_period and none at the others: at every point of a run the
\* number of loads is 1 plus the number of such boundaries passed (a load
\* about to run or failed is not counted yet).
C2_LoadsAtSyncOnly ==
    \A a \in Actors :
        LET me == actor[a]
            i == me.episode_index
            n == hist[a].loads
        IN  /\ me.pc = "constructed" => n = 0
            /\ me.pc = "load" =>
                   /\ n = SyncBoundaries(cfg[a], i)
                   /\ i > 1 => i % cfg[a].weights_sync_period = 0
            /\ me.pc \in {"reset", "step", "store", "advance"} =>
                   n = 1 + SyncBoundaries(cfg[a], i)
            /\ me.pc = "returned" => n = 1 + SyncBoundaries(cfg[a], i - 1)
            /\ me.pc = "failed" =>
                   n = IF me.error = "BufferOverflow"
                       THEN 1 + SyncBoundaries(cfg[a], i)
                       ELSE SyncBoundaries(cfg[a], i)
            /\ hist[a].resets > 0 /\ i = 1 => n = 1

C2_Witness ==
    \E a \in Actors :
        /\ cfg[a].weights_sync_period = 2
        /\ actor[a].episode_index = 3
        /\ actor[a].pc = "step"
        /\ hist[a].loads = 2

\* C3 as stated: in infer mode with force_store every completed episode is in
\* the trajectory queue, whatever the weight backend.
C3_ForceStoreAlwaysPushed ==
    \A a \in Actors :
        Infer(cfg[a]) /\ cfg[a].force_store
        => QueueCount(a) = hist[a].completed

\* C3 amended: in infer mode with force_store every completed episode is in
\* the trajectory queue when a redis server is configured, and none is when
\* the actor has no redis server (checkpoint backend alone).
C3_ForceStorePushedWithQueue ==
    \A a \in Actors :
        Infer(cfg[a]) /\ cfg[a].force_store
        => QueueCount(a) =
               IF cfg[a].backend.redis_server THEN hist[a].completed ELSE 0

C3_Witness ==
    \E a \in Actors :
        /\ Infer(cfg[a]) /\ cfg[a].force_store
        /\ cfg[a].backend.redis_server
        /\ hist[a].completed = 2
        /\ QueueCount(a) = 2

\* C4 as stated: completed episodes are appended to the queue if and only if
\* mode is train or force_store is set.
C4_PushedIffTrainOrForce ==
    \A a \in Actors :
        QueueCount(a) =
            IF Train(cfg[a]) \/ cfg[a].force_store
            THEN hist[a].completed ELSE 0

\* C4 amended: store_episode() is called for a completed episode if and only
\* if mode is train or force_store is set, and it appends to the queue only
\* when a redis server is configured: nothing is appended in infer mode
\* without force_store or without a redis server, every completed episode is
\* appended otherwise.
C4_StoredIffTrainOrForce ==
    \A a \in Actors :
        LET wanted == Train(cfg[a]) \/ cfg[a].force_store
        IN  /\ hist[a].stored = IF wanted THEN hist[a].completed ELSE 0
            /\ QueueCount(a) =
                   IF wanted /\ cfg[a].backend.redis_server
                   THEN hist[a].completed ELSE 0

C4_Witness ==
    \E a \in Actors :
        /\ Train(cfg[a]) /\ ~cfg[a].force_store
        /\ cfg[a].backend.redis_server
        /\ hist[a].completed = 2
        /\ QueueCount(a) = 2

\* C5: after N environment steps of the run eps is
\* max(eps_init - N * delta, eps_final) with
\* delta = (eps_init - eps_final) / annealing_steps, eps stays within
\* [eps_final, eps_init], and no step of the system increases it.  (All
\* terms multiplied by annealing_steps.)
C5_EpsSchedule ==
    /\ [](\A a \in Actors :
            LET e == cfg[a].exploration
                N == hist[a].steps
            IN  /\ actor[a].eps =
                       Max(e.eps_init * e.annealing_steps
                               - N * (e.eps_init - e.eps_final),
                           e.eps_final * e.annealing_steps)
                /\ actor[a].eps >= e.eps_final * e.annealing_steps
                /\ actor[a].eps <= e.eps_init * e.annealing_steps)
    /\ [][\A a \in Actors : actor'[a].eps <= actor[a].eps]_vars

C5_Witness ==
    \E a \in Actors :
        /\ hist[a].resets >= 2
        /\ hist[a].steps >= 3
        /\ actor[a].eps > EpsFinal(cfg[a])
        /\ actor[a].eps < EpsInit(cfg[a])


\* C6: two runs with the same configuration apply the same episode seed
\* before their k-th environment reset, for every k both have reached,
\* whatever weights they loaded and whatever actions they took.
C6_SameSeedSequence ==
    \A a, b \in Actors :
        cfg[a] = cfg[b] =>
            \A k \in 1..Min(Len(hist[a].seeds), Len(hist[b].seeds)) :
                hist[a].seeds[k] = hist[b].seeds[k]

C6_Witness ==
    \E a, b \in Actors :
        /\ a # b /\ cfg[a] = cfg[b]
        /\ Len(hist[a].seeds) = 2 /\ Len(hist[b].seeds) = 2
        /\ actor[a].critic # actor[b].critic
        /\ hist[a].steps # hist[b].steps
        /\ Len(actor[a].buffer.actions) = 1
        /\ Len(actor[b].buffer.actions) = 1
        /\ actor[a].buffer.actions # actor[b].buffer.actions

BackendCount(c) ==
    (IF c.backend.resume THEN 1 ELSE 0)
        + (IF c.backend.redis_server THEN 1 ELSE 0)

SharedStoreBackend(c) == ~c.backend.resume /\ c.backend.redis_server

\* C8: with the shared-store backend, a load that finds the weights key
\* absent or malformed fails: it installs nothing and the actor stops, and a
\* stopped actor changes nothing any more (no reset, step, load or push).
C8_FailedLoadStops ==
    [][\A a \in Actors :
          /\ ( /\ actor[a].pc = "load"
               /\ SharedStoreBackend(cfg[a])
               /\ redis.weights \in {"absent", "malformed"}
               /\ actor'[a] # actor[a] )
             => /\ actor'[a].pc = "failed"
                /\ actor'[a].critic = actor[a].critic
                /\ hist'[a] = hist[a]
          /\ actor[a].pc = "failed"
             => /\ actor'[a] = actor[a]
                /\ env'[a] = env[a]
                /\ rng'[a] = rng[a]
                /\ hist'[a] = hist[a]
                /\ QueueCount(a)' = QueueCount(a)]_vars

C8_Witness ==
    \E a \in Actors :
        /\ SharedStoreBackend(cfg[a])
        /\ actor[a].pc = "failed"
        /\ actor[a].error = "WeightsUnavailable"
        /\ actor[a].episode_index = 2
        /\ actor[a].critic \in LearnerWeights
        /\ hist[a].loads = 1

\* C9: the buffer never holds more than buffer_size transitions; the step
\* whose push would exceed it fails and stops the actor, so no episode of
\* more than buffer_size steps is emitted.
C9_BufferBounded ==
    \A a \in Actors :
        /\ Len(actor[a].buffer.actions) <= cfg[a].buffer_size
        /\ env[a].t > cfg[a].buffer_size =>
               actor[a].pc = "failed" /\ actor[a].error = "BufferOverflow"
        /\ actor[a].error = "BufferOverflow" => actor[a].pc = "failed"
        /\ \A i \in 1..Len(redis.trajectories) :
               redis.trajectories[i].by = a =>
                   Len(redis.trajectories[i].episode[2]) <= cfg[a].buffer_size

C9_Witness ==
    \E a \in Actors :
        /\ actor[a].pc = "failed"
        /\ actor[a].error = "BufferOverflow"
        /\ env[a].t = cfg[a].buffer_size + 1
        /\ Len(actor[a].buffer.actions) = cfg[a].buffer_size
        /\ hist[a].completed = 1

\* C10: every emitted episode is four sequences of one length L >= 1 whose
\* dones are FALSE except the last, which is TRUE; and the actor is at the
\* emitter only when the last transition pushed has done = TRUE.
C10_EmittedEpisodeShape ==
    /\ \A i \in 1..Len(redis.trajectories) :
           LET e == redis.trajectories[i].episode
               L == Len(e[4])
           IN  /\ L >= 1
               /\ Len(e[1]) = L /\ Len(e[2]) = L /\ Len(e[3]) = L
               /\ e[4][L] = TRUE
               /\ \A j \in 1..(L - 1) : e[4][j] = FALSE
    /\ \A a \in Actors :
           /\ actor[a].pc = "store" =>
                  /\ Len(actor[a].buffer.dones) >= 1
                  /\ actor[a].buffer.dones[Len(actor[a].buffer.dones)]
           /\ actor[a].error # "IncompleteEpisode"

C10_Witness ==
    \E i \in 1..Len(redis.trajectories) :
        LET e == redis.trajectories[i].episode
        IN  /\ Len(e[4]) = 3
            /\ e[4] = <<FALSE, FALSE, TRUE>>
            /\ Len(e[1]) = 3

IsPrefix(s, t) == Len(s) <= Len(t) /\ SubSeq(t, 1, Len(s)) = s

\* the episode (number of the environment reset) an entry was recorded in
EntryEpisode(entry) == entry.episode[1][1][1]

\* C11: whatever the interleaving of the actors, a step changes the
\* trajectory queue only by appending one entry at its tail; an actor's
\* episode is in the queue at most once; and an actor's entries stand in the
\* order in which it completed the episodes.
C11_QueueAppendOnly ==
    /\ [][\/ redis.trajectories' = redis.trajectories
          \/ /\ Len(redis.trajectories') = Len(redis.trajectories) + 1
             /\ IsPrefix(redis.trajectories, redis.trajectories')]_vars
    /\ [](\A i, j \in 1..Len(redis.trajectories) :
            ( /\ i < j
              /\ redis.trajectories[i].by = redis.trajectories[j].by )
            => EntryEpisode(redis.trajectories[i])
                   < EntryEpisode(redis.trajectories[j]))

C11_Witness ==
    /\ Len(redis.trajectories) = 4
    /\ redis.trajectories[1].by = 2
    /\ redis.trajectories[2].by = 1
    /\ redis.trajectories[3].by = 1
    /\ redis.trajectories[4].by = 2

\* the value the actor's weight source holds now
SourceValue(a) ==
    IF Backend(cfg[a]) = "checkpoint" THEN Checkpoint ELSE redis.weights

\* C12: no step of an actor changes the weights key; an actor's installed
\* weights change only in a load, which installs the whole value the source
\* holds at that moment; from then on they equal the value read at the most
\* recent load, and a learner write changes nothing in any actor and fails
\* none.
C12_WeightsChangeAtLoadOnly ==
    /\ [][\A a \in Actors :
            /\ actor'[a] # actor[a] => redis'.weights = redis.weights
            /\ actor'[a].critic # actor[a].critic =>
                   /\ actor[a].pc = "load"
                   /\ actor'[a].pc = "reset"
            /\ (actor[a].pc = "load" /\ actor'[a].pc = "reset") =>
                   actor'[a].critic = SourceValue(a)
            /\ redis'.weights # redis.weights =>
                   /\ actor'[a] = actor[a]
                   /\ hist'[a] = hist[a]]_vars
    /\ [](\A a \in Actors :
            /\ hist[a].loads = 0 => actor[a].critic = InitialCritic
            /\ hist[a].loads > 0 => actor[a].critic = hist[a].loaded)

C12_Witness ==
    \E a \in Actors :
        /\ actor[a].pc = "step"
        /\ actor[a].step_index > 0
        /\ hist[a].loads = 2
        /\ actor[a].critic = "w1"
        /\ redis.weights = "w2"

Elements(seq) == {seq[i] : i \in 1..Len(seq)}

\* C13: every environment reset, the first and each later one, with or
\* without a weight reload before it, is preceded by the two seeding phases in
\* order: the decorrelation seed, which is the actor's base seed plus a draw
\* in [0, SEED_RANGE), then the episode seed, which is the last seed applied
\* before the reset and is a member of the seed pool when there is one and
\* a value in [0, SEED_RANGE) otherwise.
C13_TwoPhaseSeeding ==
    /\ [][\A a \in Actors :
            env'[a].resets # env[a].resets =>
                /\ env'[a].resets = env[a].resets + 1
                /\ Len(hist'[a].applied) = Len(hist[a].applied) + 2
                /\ SubSeq(hist'[a].applied, 1, Len(hist[a].applied))
                       = hist[a].applied
                /\ rng'[a] = SetGlobalSeeds(
                       hist'[a].applied[Len(hist'[a].applied)])]_vars
    /\ [](\A a \in Actors :
            /\ Len(hist[a].applied) = 1 + 2 * env[a].resets
            /\ \A k \in 1..env[a].resets :
                 LET phase1 == hist[a].applied[2 * k]
                     phase2 == hist[a].applied[2 * k + 1]
                 IN  /\ phase1 - ActorSeed(cfg[a]) \in 0..(SEED_RANGE - 1)
                     /\ phase2 = hist[a].seeds[k]
                     /\ cfg[a].seeds # <<>> =>
                            phase2 \in Elements(cfg[a].seeds)
                     /\ cfg[a].seeds = <<>> =>
                            phase2 \in 0..(SEED_RANGE - 1)
            /\ env[a].resets > 0 =>
                 /\ actor[a].seed = hist[a].applied[Len(hist[a].applied)]
                 /\ rng[a].py = Seeded(actor[a].seed))

C13_Witness ==
    \E a \in Actors :
        /\ env[a].resets = 3
        /\ hist[a].loads = 2
        /\ cfg[a].seeds # <<>>
        /\ hist[a].applied[6] # hist[a].applied[4]

C13_WitnessUnpooled ==
    \E a \in Actors :
        /\ env[a].resets = 2
        /\ hist[a].loads = 2
        /\ cfg[a].seeds = <<>>
        /\ hist[a].applied[2] > SEED_RANGE

\* C14: an actor returns exactly when the limit test on the incremented index
\* succeeds, and a returned actor does nothing more: its weights, seeds,
\* random state, environment, buffer, counters, episode index and history of
\* loads, resets and steps stay as they are, and it pushes no further entry,
\* whatever the other actors and the learner do meanwhile.
C14_TerminatedDoesNothing ==
    [][\A a \in Actors :
         /\ actor[a].pc = "returned" =>
                /\ actor'[a] = actor[a]
                /\ rng'[a] = rng[a]
                /\ env'[a] = env[a]
                /\ hist'[a] = hist[a]
                /\ QueueCount(a)' = QueueCount(a)
         /\ (actor[a].pc = "advance" /\ actor'[a].pc # "advance") =>
                ( actor'[a].pc = "returned"
                  <=> actor'[a].episode_index >= EpisodeLimit(cfg[a]) )
         /\ (actor[a].pc # "returned" /\ actor'[a].pc = "returned") =>
                actor[a].pc = "advance"]_vars

C14_Witness ==
    /\ actor[1].pc = "returned"
    /\ actor[1].episode_index = 2
    /\ QueueCount(1) = 1
    /\ actor[2].pc = "step"
    /\ hist[2].resets = 2
    /\ redis.weights = "w2"

\* C15: a step of the system that is not an environment step of the actor
\* (load, re-seeding and reset, push, index increment, a learner write) leaves
\* the actor's eps as it is, and an environment step applies the decay
\* max(eps - delta, eps_final) exactly once; so an episode starts with the
\* eps the previous one ended with.
C15_EpsChangesInStepOnly ==
    [][\A a \in Actors :
         /\ hist'[a].steps = hist[a].steps =>
                actor'[a].eps = actor[a].eps
         /\ hist'[a].steps # hist[a].steps =>
                /\ actor[a].pc = "step"
                /\ hist'[a].steps = hist[a].steps + 1
                /\ env'[a].t = env[a].t + 1
                /\ actor'[a].eps =
                       Max(actor[a].eps - EpsDelta(cfg[a]),
                           EpsFinal(cfg[a]))]_vars

C15_Witness ==
    \E a \in Actors :
        /\ actor[a].pc = "step"
        /\ env[a].t = 0
        /\ env[a].resets = 2
        /\ hist[a].loads = 2
        /\ hist[a].steps = 1
        /\ actor[a].eps = EpsInit(cfg[a]) - EpsDelta(cfg[a])
        /\ actor[a].eps > EpsFinal(cfg[a])

\* C16: the episode index never decreases; run() sets it to 1 and after that
\* it changes only at an episode boundary, by exactly +1, after the episode's
\* push; it is the number of completed episodes plus one while the episode is
\* loaded for, reset, stepped and pushed.  The limit test and then the sync
\* test both read the incremented index: the actor returns iff it has reached
\* the limit, and otherwise reloads iff it is a multiple of the sync period.
C16_IndexMonotone ==
    /\ [][\A a \in Actors :
            /\ actor'[a].episode_index >= actor[a].episode_index
            /\ actor'[a].episode_index # actor[a].episode_index =>
                   \/ /\ actor[a].pc = "constructed"
                      /\ actor'[a].episode_index = 1
                   \/ /\ actor[a].pc = "advance"
                      /\ hist[a].completed = actor[a].episode_index
                      /\ actor'[a].episode_index
                             = actor[a].episode_index + 1
            /\ (actor[a].pc = "advance" /\ actor'[a].pc # "advance") =>
                   LET index == actor'[a].episode_index
                       limit == EpisodeLimit(cfg[a])
                       period == cfg[a].weights_sync_period
                   IN  /\ index = actor[a].episode_index + 1
                       /\ actor'[a].pc = "returned" <=> index >= limit
                       /\ actor'[a].pc = "load"
                              <=> (index < limit /\ index % period = 0)
                       /\ actor'[a].pc = "reset"
                              <=> (index < limit /\ index % period # 0)]_vars
    /\ [](\A a \in Actors :
            /\ actor[a].pc \in {"load", "reset", "step", "store", "returned"}
                   => actor[a].episode_index = hist[a].completed + 1
            /\ actor[a].pc = "advance"
                   => actor[a].episode_index = hist[a].completed)

C16_Witness ==
    \E a \in Actors :
        /\ actor[a].pc = "reset"
        /\ actor[a].episode_index = 3
        /\ hist[a].completed = 2
        /\ hist[a].loads = 2
        /\ cfg[a].weights_sync_period = 2
        /\ QueueCount(a) = 2

Last(seq) == seq[Len(seq)]

\* C17: an environment step reads the state from the buffer as it stood
\* before the step, chooses the action with the eps of before the step (a
\* random action in [0, num_actions) when the draw is below it, the greedy
\* action for that state otherwise), decays eps once, advances the
\* environment once and pushes exactly one transition, which holds that action
\* and the environment's new observation; the episode's step count is the
\* number of transitions pushed.
C17_StepOrder ==
    /\ [][\A a \in Actors :
            ( /\ hist'[a].steps # hist[a].steps
              /\ actor'[a].pc # "failed" ) =>
                LET old == actor[a]
                    new == actor'[a]
                    state == GetState(old.buffer, history_len)
                    drawn == Rand(rng[a].np)
                              * cfg[a].exploration.annealing_steps
                    chosen == Last(new.buffer.actions)
                IN  /\ chosen \in 0..(num_actions - 1)
                    /\ drawn < old.eps =>
                           /\ chosen =
                                  Randint(Advance(rng[a].np), num_actions)
                           /\ rng'[a].np.n = rng[a].np.n + 2
                    /\ drawn >= old.eps =>
                           /\ chosen = Greedy(old.critic, state)
                           /\ rng'[a].np.n = rng[a].np.n + 1
                    /\ new.eps = Max(old.eps - EpsDelta(cfg[a]),
                                     EpsFinal(cfg[a]))
                    /\ env'[a].t = env[a].t + 1
                    /\ Len(new.buffer.actions)
                           = Len(old.buffer.actions) + 1
                    /\ SubSeq(new.buffer.actions, 1,
                              Len(old.buffer.actions)) = old.buffer.actions
                    /\ Last(new.buffer.observations)
                           = <<env'[a].resets, env'[a].t>>
                    /\ new.step_index = old.step_index + 1]_vars
    /\ [](\A a \in Actors :
            /\ actor[a].step_index = Len(actor[a].buffer.actions)
            /\ actor[a].pc \in {"step", "store"} =>
                   actor[a].step_index = env[a].t)

C17_Witness ==
    \E a \in Actors :
        /\ actor[a].pc = "store"
        /\ actor[a].step_index = 3
        /\ Len(actor[a].buffer.actions) = 3
        /\ rng[a].np.n \in {4, 5}
        /\ actor[a].buffer.actions[1] # actor[a].buffer.actions[3]

\* how many entries of the same actor stand in the queue up to position i
EntryRank(i) ==
    Cardinality({j \in 1..i :
                    redis.trajectories[j].by = redis.trajectories[i].by})

\* C18: when an episode starts the buffer holds the observation of that
\* episode's reset and nothing else, and the step count and both reward sums
\* are zero; while the episode runs the buffer holds that episode's
\* observations only, one per step since the reset; and the k-th entry an
\* actor has pushed holds the steps of its k-th episode from the reset up to
\* the done, and no other.
C18_FreshEpisodeState ==
    /\ \A a \in Actors :
         /\ (actor[a].pc = "step" /\ env[a].t = 0) =>
                /\ actor[a].buffer.observations = << <<env[a].resets, 0>> >>
                /\ actor[a].buffer.actions = <<>>
                /\ actor[a].buffer.rewards = <<>>
                /\ actor[a].buffer.dones = <<>>
                /\ actor[a].step_index = 0
                /\ actor[a].episode_reward = 0
                /\ actor[a].episode_reward_orig = 0
                /\ ~actor[a].done
         /\ actor[a].pc \in {"step", "store"} =>
                /\ Len(actor[a].buffer.observations) = env[a].t + 1
                /\ Len(actor[a].buffer.actions) = env[a].t
                /\ \A i \in 1..Len(actor[a].buffer.observations) :
                       actor[a].buffer.observations[i]
                           = <<env[a].resets, i - 1>>
    /\ \A i \in 1..Len(redis.trajectories) :
         LET e == redis.trajectories[i].episode
             k == EntryRank(i)
         IN  /\ Len(e[1]) = Len(e[2])
             /\ \A j \in 1..Len(e[1]) : e[1][j] = <<k, j - 1>>
             /\ \A j \in 1..Len(e[4]) : e[4][j] <=> j = Len(e[4])

C18_Witness ==
    /\ Len(redis.trajectories) = 2
    /\ Len(redis.trajectories[1].episode[2]) = 2
    /\ Len(redis.trajectories[2].episode[2]) = 3
    /\ \E a \in Actors :
         /\ actor[a].pc = "step"
         /\ env[a].t = 0
         /\ env[a].resets = 3
         /\ actor[a].buffer.observations = << <<3, 0>> >>

\* C19 as stated, its last part: with no episode_limit configured run()
\* never returns.
C19_NoLimitNeverReturns ==
    \A a \in Actors :
        cfg[a].episode_limit = 0 => actor[a].pc # "returned"

\* C19: with an episode_limit set and every episode reaching done, run()
\* eventually returns, or ends with the exception of a failed weight load;
\* it returns only at an episode boundary, when the incremented index has
\* reached the limit in force; and with no episode_limit configured the limit
\* in force is 2^32 - 2, so run() returns, after 2^32 - 3 episodes and not
\* before.
C19_ReturnsAtLimit ==
    /\ [](cfg[1].episode_limit # 0 =>
              <>(actor[1].pc \in {"returned", "failed"}))
    /\ [][\A a \in Actors :
            (actor[a].pc # "returned" /\ actor'[a].pc = "returned") =>
                /\ actor[a].pc = "advance"
                /\ actor[a].done
                /\ actor'[a].episode_index = actor[a].episode_index + 1
                /\ actor'[a].episode_index >= EpisodeLimit(cfg[a])
                /\ ( actor[a].episode_index < EpisodeLimit(cfg[a])
                     \/ actor[a].episode_index = 1 )]_vars
    /\ [](\A a \in Actors :
            ( /\ cfg[a].episode_limit = 0
              /\ actor[a].pc = "returned" ) =>
                /\ actor[a].episode_index = DefaultEpisodeLimit
                /\ hist[a].completed = DefaultEpisodeLimit - 1)

C19_Witness ==
    \E a \in Actors :
        /\ cfg[a].episode_limit = 0
        /\ actor[a].pc = "returned"
        /\ hist[a].completed = DefaultEpisodeLimit - 1
        /\ env[a].resets = DefaultEpisodeLimit - 1

C19_WitnessLimit ==
    \E a \in Actors :
        /\ cfg[a].episode_limit = 3
        /\ actor[a].pc = "returned"
        /\ hist[a].completed = 2

\* C20: every seed an actor has applied to the random sources, the
\* constructor's 42 + id, each decorrelation seed and each episode seed, is a
\* value of the seed word, that is in [0, 2^WordBits).
C20_SeedsInWord ==
    \A a \in Actors :
        \A i \in 1..Len(hist[a].applied) :
            hist[a].applied[i] \in 0..(2^WordBits - 1)

====
